---- MODULE Spec2Model ----
(***************************************************************************)
(* Model of automation/scripts/review_code.py: a script that checks a      *)
(* credential, extracts a git diff, asks a chat-completion service for a   *)
(* review of it and writes the review to docs/review_report.md.            *)
(*                                                                         *)
(* Text is a sequence of characters.  A Python value that may be None is   *)
(* a record [type, val]: Str(s) or NoneVal.  The environment (the process  *)
(* environment, the git repository, the remote service, the file system)   *)
(* is modelled by the outcomes it can give to the calls the script makes.  *)
(***************************************************************************)
EXTENDS Integers, Sequences, FiniteSets, TLC

VARIABLES
    apiKey,      \* os.environ: the value of OPENAI_API_KEY (NoneVal when unset)
    repo,        \* the git repository the script runs in
    fs,          \* the file system under the working directory
    pc,          \* position of main
    diff,        \* main's local `diff`
    review,      \* main's local `review`
    exitStatus,  \* <<>> while the process runs, <<status>> once it has exited
    stdout,      \* the messages printed by this run
    log,         \* the external calls made by this run, in order
    run,         \* number of the current run of the program
    fsAtStart,   \* the file system as it was when the current run started
    prevOk       \* whether the previous run ended in ReportSaved

vars == <<apiKey, repo, fs, pc, diff, review, exitStatus, stdout, log, run,
          fsAtStart, prevOk>>

-----------------------------------------------------------------------------
(* Bounds *)

MaxLen == 2        \* longest review text / file content
MaxDiffLen == 1    \* longest diff text
MaxCommits == 2    \* most commits in the repository (2 stands for "two or more")
MaxChoices == 2    \* most choices in a response of the remote service
MaxRuns == 2       \* runs of the program in succession

Chars == {"x", "\n"}

RECURSIVE TextsUpTo(_)
TextsUpTo(n) ==
    IF n = 0 THEN {<<>>}
    ELSE LET shorter == TextsUpTo(n - 1)
         IN  shorter \cup {Append(t, c) : t \in {s \in shorter : Len(s) = n - 1}, c \in Chars}

Texts == TextsUpTo(MaxLen)
DiffTexts == TextsUpTo(MaxDiffLen)

-----------------------------------------------------------------------------
(* Python values *)

Str(s) == [type |-> "str", val |-> s]
NoneVal == [type |-> "NoneType", val |-> <<>>]

Contents == {Str(t) : t \in Texts} \cup {NoneVal}

\* The truth value of a Python object: None and "" are false.
Truthy(v) == v.type = "str" /\ v.val # <<>>

IsPrefix(p, s) == Len(p) <= Len(s) /\ SubSeq(s, 1, Len(p)) = p

Call(name, arg, ok, out) == [call |-> name, arg |-> arg, ok |-> ok, out |-> out]

-----------------------------------------------------------------------------
(* main, line 65: `if not os.getenv("OPENAI_API_KEY")` *)

\* the values of os.getenv("OPENAI_API_KEY"): unset, empty, set
Keys == {NoneVal, Str(<<>>), Str(<<"k">>)}

CredentialMissing_IsNone(key) == key.type = "NoneType"

CredentialMissing(key) == ~Truthy(key)

-----------------------------------------------------------------------------
(* The git repository and the three git invocations of get_diff *)

\* A flag that decides nothing in a repository (the tree of a commit it
\* does not have) is TRUE.
Repos ==
    {r \in [gitInstalled : BOOLEAN,    \* the git executable can be started
            commits : 0..MaxCommits,   \* commits reachable from HEAD (0: no HEAD, or no repository)
            parentOk : BOOLEAN,        \* git can read the tree of HEAD~1
            headOk : BOOLEAN] :        \* git can read the tree of HEAD
        /\ r.commits < 2 => r.parentOk
        /\ r.commits < 1 => r.headOk}

RevParseArgs == <<"rev-parse", "HEAD~1">>
Diff2Args == <<"diff", "HEAD~1", "HEAD">>
EmptyTree == "4b825dc642cb6eb9a060e54bf8d69288fbee4904"
DiffEmptyArgs == <<"diff", EmptyTree, "HEAD">>

\* exit status 0 of `git rev-parse HEAD~1`: HEAD has a parent
RevParseOk(r) == r.commits >= 2
\* exit status 0 of `git diff HEAD~1 HEAD`
Diff2Ok(r) == r.commits >= 2 /\ r.parentOk /\ r.headOk
\* exit status 0 of `git diff <empty tree> HEAD`
DiffEmptyOk(r) == r.commits >= 1 /\ r.headOk

Raised(calls) == [raised |-> TRUE, value |-> NoneVal, calls |-> calls]
Returned(v, calls) == [raised |-> FALSE, value |-> v, calls |-> calls]

\* The except branch of get_diff (lines 20-26), entered after `before`.
Fallback(r, before, outE) ==
    IF DiffEmptyOk(r)
    THEN Returned(Str(outE), Append(before, Call("git", DiffEmptyArgs, TRUE, outE)))
    ELSE Raised(Append(before, Call("git", DiffEmptyArgs, FALSE, <<>>)))

\* get_diff without the except clause: a CalledProcessError propagates.
get_diff_NoFallback(r, out2, outE) ==
    IF ~r.gitInstalled THEN Raised(<<Call("git", RevParseArgs, FALSE, <<>>)>>)
    ELSE IF ~RevParseOk(r) THEN Raised(<<Call("git", RevParseArgs, FALSE, <<>>)>>)
    ELSE IF Diff2Ok(r)
         THEN Returned(Str(out2), <<Call("git", RevParseArgs, TRUE, <<>>),
                                    Call("git", Diff2Args, TRUE, out2)>>)
         ELSE Raised(<<Call("git", RevParseArgs, TRUE, <<>>),
                       Call("git", Diff2Args, FALSE, <<>>)>>)

\* get_diff (lines 7-27).  out2 and outE are what the two diff commands
\* print when they succeed.  A missing executable raises FileNotFoundError,
\* which the except clause does not catch; a non-zero exit of either
\* command of the try block raises CalledProcessError, which it does.
get_diff(r, out2, outE) ==
    IF ~r.gitInstalled THEN Raised(<<Call("git", RevParseArgs, FALSE, <<>>)>>)
    ELSE IF ~RevParseOk(r)
         THEN Fallback(r, <<Call("git", RevParseArgs, FALSE, <<>>)>>, outE)
    ELSE IF Diff2Ok(r)
         THEN Returned(Str(out2), <<Call("git", RevParseArgs, TRUE, <<>>),
                                    Call("git", Diff2Args, TRUE, out2)>>)
         ELSE Fallback(r, <<Call("git", RevParseArgs, TRUE, <<>>),
                            Call("git", Diff2Args, FALSE, <<>>)>>, outE)

-----------------------------------------------------------------------------
(* review_code (lines 29-52) *)

PromptHead == <<"\nYou are an expert code reviewer. [...]\n\nCode Diff:\n">>
PromptTail == <<"\n\nPlease output your review in Markdown format.\n">>

BuildPrompt_NoDiff(d) == PromptHead \o PromptTail

\* the f-string of lines 33-43
BuildPrompt(d) == PromptHead \o d \o PromptTail

\* A response of ChatCompletion.create: an exception, or a list of choices,
\* each holding the content of its message.  The choices after the first
\* all hold the same content.
Responses ==
    {[error |-> TRUE, choices |-> <<>>]} \cup
    {[error |-> FALSE, choices |-> [i \in 1..n |-> IF i = 1 THEN first ELSE other]] :
        n \in 0..MaxChoices, first \in Contents, other \in Contents}

FirstChoice_Last(choices) == choices[Len(choices)]

\* response['choices'][0]['message']['content'], line 52
FirstChoice(choices) == choices[1]

\* review_code (lines 29-52).  The call is logged with the prompt it sent
\* and, when the service answered with choices, the content of the first.
review_code(d, resp) ==
    LET prompt == BuildPrompt(d.val)
    IN  IF resp.error
        THEN Raised(<<Call("ChatCompletion.create", prompt, FALSE, <<>>)>>)
        ELSE IF Len(resp.choices) = 0   \* IndexError
        THEN Raised(<<Call("ChatCompletion.create", prompt, TRUE, <<>>)>>)
        ELSE Returned(FirstChoice(resp.choices),
                      <<Call("ChatCompletion.create", prompt, TRUE, <<resp.choices[1]>>)>>)

-----------------------------------------------------------------------------
(* The file system and save_review (lines 54-62) *)

ReportDir == "docs"
ReportPath == "docs/review_report.md"

NoFile == [exists |-> FALSE, data |-> <<>>]
File(data) == [exists |-> TRUE, data |-> data]

\* docs: what the path "docs" is; report: the file docs/review_report.md;
\* others: the names of the other entries of docs.
FsStates ==
    {f \in [docs : {"absent", "dir", "file"},
            report : {NoFile} \cup {File(t) : t \in Texts},
            others : SUBSET {"other.md"}] :
        f.docs # "dir" => (f.report = NoFile /\ f.others = {})}

\* What can go wrong in the file system besides what its state decides:
\* the directory cannot be created, the file cannot be opened, the data
\* cannot all be written (permissions, disk full).
FsFaults == {"none", "makedirs", "open", "write"}

\* os.makedirs("docs", exist_ok=True), line 58
MakedirsOk(f, fault) ==
    \/ f.docs = "dir"
    \/ f.docs = "absent" /\ fault # "makedirs"

\* the file opened with mode "a": created if missing, never truncated
OpenW_Append(f) == [f EXCEPT !.report = File(f.report.data)]

\* open(file_path, "w", encoding="utf-8"), line 60: creates or truncates
OpenW(f) == [f EXCEPT !.report = File(<<>>)]

\* The statements of save_review writing `payload`: makedirs, open, write,
\* close.  An exception leaves the file system as the statements before it
\* made it; a failed write leaves the first k characters in the file.
WriterSteps(f, rev, fault, k, payload) ==
    LET mk == Call("os.makedirs", <<ReportDir>>, MakedirsOk(f, fault), <<>>)
        f1 == [f EXCEPT !.docs = "dir"]
        op == Call("open", <<ReportPath, "w">>, fault # "open", <<>>)
        f2 == OpenW(f1)
        wr(ok) == Call("file.write", rev.val, ok, <<>>)
        put(data) == [f2 EXCEPT !.report = File(f2.report.data \o data)]
    IN  IF ~MakedirsOk(f, fault)
        THEN [raised |-> TRUE, fs |-> f, calls |-> <<mk>>]
        ELSE IF fault = "open"
        THEN [raised |-> TRUE, fs |-> f1, calls |-> <<mk, op>>]
        ELSE IF rev.type # "str"     \* TypeError: write() argument must be str
        THEN [raised |-> TRUE, fs |-> f2, calls |-> <<mk, op, wr(FALSE)>>]
        ELSE IF fault = "write"
        THEN [raised |-> TRUE, fs |-> put(SubSeq(payload, 1, k)),
              calls |-> <<mk, op, wr(FALSE)>>]
        ELSE [raised |-> FALSE, fs |-> put(payload), calls |-> <<mk, op, wr(TRUE)>>]

\* the review written with its last character removed when it is a newline
save_review_Trim(f, rev, fault, k) ==
    WriterSteps(f, rev, fault, k,
                IF rev.val # <<>> /\ rev.val[Len(rev.val)] = "\n"
                THEN SubSeq(rev.val, 1, Len(rev.val) - 1) ELSE rev.val)

\* the review written after a heading line
save_review_Wrap(f, rev, fault, k) ==
    WriterSteps(f, rev, fault, k, <<"#">> \o rev.val)

\* save_review (lines 54-62)
save_review(f, rev, fault, k) == WriterSteps(f, rev, fault, k, rev.val)

-----------------------------------------------------------------------------
(* main (lines 64-76) *)

Terminal == {"ReportSaved", "Failed"}

\* a failed remote call is tried again
NextPc_Retry(at, raised) ==
    IF raised THEN (IF at = "DiffObtained" THEN at ELSE "Failed")
    ELSE CASE at = "Idle" -> "CredentialChecked"
           [] at = "CredentialChecked" -> "DiffObtained"
           [] at = "DiffObtained" -> "ReviewObtained"
           [] at = "ReviewObtained" -> "ReportSaved"

\* a failed remote call is swallowed and the run goes on to the writer
NextPc_Swallow(at, raised) ==
    IF raised /\ at # "DiffObtained" THEN "Failed"
    ELSE CASE at = "Idle" -> "CredentialChecked"
           [] at = "CredentialChecked" -> "DiffObtained"
           [] at = "DiffObtained" -> "ReviewObtained"
           [] at = "ReviewObtained" -> "ReportSaved"

\* The straight line of main: each statement is followed by the next one,
\* and sys.exit or an exception no statement catches ends the process.
NextPc(at, raised) ==
    IF raised THEN "Failed"
    ELSE CASE at = "Idle" -> "CredentialChecked"
           [] at = "CredentialChecked" -> "DiffObtained"
           [] at = "DiffObtained" -> "ReviewObtained"
           [] at = "ReviewObtained" -> "ReportSaved"

\* sys.exit(1) and an uncaught exception give status 1, falling off main 0
ExitOf(at) ==
    IF at = "Failed" THEN <<1>> ELSE IF at = "ReportSaved" THEN <<0>> ELSE <<>>

TypeOK ==
    /\ apiKey \in Keys
    /\ repo \in Repos
    /\ fs \in FsStates
    /\ pc \in {"Idle", "CredentialChecked", "DiffObtained", "ReviewObtained"} \cup Terminal
    /\ diff \in {NoneVal} \cup {Str(t) : t \in DiffTexts}
    /\ review \in Contents
    /\ exitStatus \in {<<>>, <<0>>, <<1>>}
    /\ run \in 1..MaxRuns
    /\ prevOk \in BOOLEAN

Init ==
    /\ apiKey \in Keys
    /\ repo \in Repos
    /\ fs \in FsStates
    /\ pc = "Idle"
    /\ diff = NoneVal
    /\ review = NoneVal
    /\ exitStatus = <<>>
    /\ stdout = <<>>
    /\ log = <<>>
    /\ run = 1
    /\ fsAtStart = fs
    /\ prevOk = FALSE

\* lines 65-67
CheckCredential ==
    /\ pc = "Idle"
    /\ LET missing == CredentialMissing(apiKey)
       IN  /\ pc' = NextPc(pc, missing)
           /\ exitStatus' = ExitOf(pc')
           /\ stdout' = IF missing
                        THEN Append(stdout, "Error: OPENAI_API_KEY is not set in environment variables.")
                        ELSE stdout
    /\ log' = Append(log, Call("os.getenv", <<"OPENAI_API_KEY">>, TRUE, <<>>))
    /\ UNCHANGED <<apiKey, repo, fs, diff, review, run, fsAtStart, prevOk>>

\* lines 69-70
GetDiff ==
    /\ pc = "CredentialChecked"
    /\ \E out2 \in DiffTexts, outE \in DiffTexts :
          LET res == get_diff(repo, out2, outE)
          IN  /\ pc' = NextPc(pc, res.raised)
              /\ diff' = res.value
              /\ log' = log \o res.calls
    /\ exitStatus' = ExitOf(pc')
    /\ stdout' = Append(stdout, "Obtaining git diff...")
    /\ UNCHANGED <<apiKey, repo, fs, review, run, fsAtStart, prevOk>>

\* lines 72-73
ReviewCode ==
    /\ pc = "DiffObtained"
    /\ \E resp \in Responses :
          LET res == review_code(diff, resp)
          IN  /\ pc' = NextPc(pc, res.raised)
              /\ review' = res.value
              /\ log' = log \o res.calls
    /\ exitStatus' = ExitOf(pc')
    /\ stdout' = Append(stdout, "Generating code review via OpenAI...")
    /\ UNCHANGED <<apiKey, repo, fs, diff, run, fsAtStart, prevOk>>

\* lines 75-76
SaveReview ==
    /\ pc = "ReviewObtained"
    /\ \E fault \in FsFaults, k \in 0..Len(review.val) :
          LET res == save_review(fs, review, fault, k)
          IN  /\ pc' = NextPc(pc, res.raised)
              /\ fs' = res.fs
              /\ log' = log \o res.calls
              /\ stdout' = IF res.raised THEN stdout
                           ELSE stdout \o <<"Review report saved to docs/review_report.md",
                                            "Code review completed successfully!">>
    /\ exitStatus' = ExitOf(pc')
    /\ UNCHANGED <<apiKey, repo, diff, review, run, fsAtStart, prevOk>>

\* lines 78-79: the program is run again, in the file system the last run
\* left; in between the credential may have been set or unset and a commit
\* may have been made.
Restart ==
    /\ pc \in Terminal
    /\ run < MaxRuns
    /\ run' = run + 1
    /\ prevOk' = (pc = "ReportSaved")
    /\ apiKey' \in Keys
    /\ \E c \in {repo.commits, repo.commits + 1} :
          /\ c <= MaxCommits
          /\ repo' = [repo EXCEPT !.commits = c]
    /\ fsAtStart' = fs
    /\ pc' = "Idle"
    /\ diff' = NoneVal
    /\ review' = NoneVal
    /\ exitStatus' = <<>>
    /\ stdout' = <<>>
    /\ log' = <<>>
    /\ UNCHANGED fs

Next ==
    \/ CheckCredential
    \/ GetDiff
    \/ ReviewCode
    \/ SaveReview
    \/ Restart

Spec == Init /\ [][Next]_vars

-----------------------------------------------------------------------------
(* What a run has done, read off its log *)

CallsOf(name) == SelectSeq(log, LAMBDA c : c.call = name)
GitCalls == CallsOf("git")
RemoteCalls == CallsOf("ChatCompletion.create")
FsCalls == SelectSeq(log, LAMBDA c : c.call \in {"os.makedirs", "open", "file.write"})

GitCalled(args) == \E i \in DOMAIN log : log[i].call = "git" /\ log[i].arg = args
GitSucceeded(args) == \E i \in DOMAIN log : log[i].call = "git" /\ log[i].arg = args /\ log[i].ok

\* the remote call raised, or answered with an empty list of choices
RemoteFailed == \E i \in DOMAIN log :
    log[i].call = "ChatCompletion.create" /\ (~log[i].ok \/ log[i].out = <<>>)

FileOpened == \E i \in DOMAIN log : log[i].call = "open" /\ log[i].ok

-----------------------------------------------------------------------------
(* C1: with OPENAI_API_KEY unset or empty, a run that has started makes no  *)
(* git invocation, no remote call, creates no directory and writes no file, *)
(* and has exited with status 1.                                            *)
C1_NoCredentialNoWork ==
    (apiKey \in {NoneVal, Str(<<>>)} /\ pc # "Idle") =>
        /\ pc = "Failed"
        /\ exitStatus = <<1>>
        /\ GitCalls = <<>>
        /\ RemoteCalls = <<>>
        /\ FsCalls = <<>>
        /\ fs = fsAtStart

C1_Witness ==
    /\ apiKey = Str(<<>>)
    /\ pc = "Failed"
    /\ exitStatus = <<1>>
    /\ repo.gitInstalled /\ repo.commits >= 2

(* C2: after a successful run docs/review_report.md holds exactly the       *)
(* content of the first choice the remote call returned, and the exit       *)
(* status is 0.                                                             *)
C2_ReportIsFirstChoice ==
    pc = "ReportSaved" =>
        /\ Len(RemoteCalls) = 1
        /\ RemoteCalls[1].out = <<Str(fs.report.data)>>
        /\ fs.report.exists
        /\ fs.docs = "dir"
        /\ exitStatus = <<0>>

C2_Witness ==
    /\ pc = "ReportSaved"
    /\ fs.report = File(<<"x", "\n">>)
    /\ exitStatus = <<0>>

(* C3: when `git rev-parse HEAD~1` succeeds, the empty-tree diff command is *)
(* never invoked in that run, whatever `git diff HEAD~1 HEAD` does.         *)
C3_NoFallbackWithParent ==
    GitSucceeded(RevParseArgs) => (GitCalled(Diff2Args) /\ ~GitCalled(DiffEmptyArgs))

(* C4: in an intact repository with exactly one commit, diff extraction     *)
(* runs rev-parse (which fails) and then the diff of the empty tree against *)
(* HEAD, never the two-revision diff; it returns the output of that         *)
(* command, and that output is the diff sent to the remote service.         *)
C4_SingleCommitFallback ==
    (/\ repo.gitInstalled /\ repo.commits = 1 /\ repo.headOk
     /\ pc \notin {"Idle", "CredentialChecked"}
     /\ Truthy(apiKey)) =>
        /\ Len(GitCalls) = 2
        /\ GitCalls[1] = Call("git", RevParseArgs, FALSE, <<>>)
        /\ GitCalls[2].arg = <<"diff", "4b825dc642cb6eb9a060e54bf8d69288fbee4904", "HEAD">>
        /\ GitCalls[2].ok
        /\ diff = Str(GitCalls[2].out)
        /\ \A i \in DOMAIN RemoteCalls :
              RemoteCalls[i].arg = PromptHead \o GitCalls[2].out \o PromptTail

C4_Witness ==
    /\ repo.gitInstalled /\ repo.commits = 1 /\ repo.headOk
    /\ pc = "ReviewObtained"
    /\ diff = Str(<<"x">>)
    /\ Len(RemoteCalls) = 1

(* C5: a diff command that exits non-zero makes diff extraction fail: the   *)
(* run is Failed with a non-zero exit status, and no remote call and no     *)
(* file write are made.                                                     *)
C5_DiffFailurePropagates ==
    \A i \in DOMAIN log :
        (log[i].call = "git" /\ log[i].arg # RevParseArgs /\ ~log[i].ok) =>
            /\ pc = "Failed"
            /\ exitStatus = <<1>>
            /\ RemoteCalls = <<>>
            /\ fs = fsAtStart

(* C6: a run in which the remote call fails leaves the file system as it    *)
(* was when the run started, and makes no file-system call.                 *)
C6_RemoteFailureLeavesFs ==
    RemoteFailed =>
        /\ pc = "Failed"
        /\ FsCalls = <<>>
        /\ fs = fsAtStart

C6_Witness ==
    /\ RemoteFailed
    /\ pc = "Failed"
    /\ diff.type = "str"
    /\ fs.report.exists /\ fs.report.data # <<>>

(* C7: after two successful runs in succession the report holds exactly     *)
(* the second run's review: the first run's content is replaced, and no     *)
(* other entry appears in the directory.                                    *)
C7_SecondRunOverwrites ==
    (run >= 2 /\ prevOk /\ pc = "ReportSaved") =>
        /\ <<Str(fs.report.data)>> = RemoteCalls[Len(RemoteCalls)].out
        /\ fs.others = fsAtStart.others

C7_Witness ==
    /\ run >= 2 /\ prevOk /\ pc = "ReportSaved"
    /\ fsAtStart.report = File(<<"x", "x">>)
    /\ fs.report = File(<<"\n">>)

(* C8, as stated: a failed run leaves the report file as it was.            *)
C8_NoPartialOutput ==
    pc = "Failed" => fs.report = fsAtStart.report

(* C8, amended: a run that fails before the report file is opened leaves    *)
(* the report file as it was; a run that fails after the file was opened    *)
(* leaves it holding a prefix of the review (nothing when the review is not *)
(* text), the previous content being lost.                                  *)
C8_PartialOnlyAfterOpen ==
    pc = "Failed" =>
        IF FileOpened
        THEN fs.report.exists /\ IsPrefix(fs.report.data, review.val)
        ELSE fs.report = fsAtStart.report

C8_Witness ==
    /\ pc = "Failed"
    /\ FileOpened
    /\ fsAtStart.report = File(<<"x", "x">>)
    /\ review = Str(<<"\n", "x">>)
    /\ fs.report = File(<<"\n">>)

(* C9: a run goes Idle, CredentialChecked, DiffObtained, ReviewObtained,    *)
(* ReportSaved, leaving this line only for Failed, and enters no state      *)
(* twice; its calls are the credential read, then the git commands, then    *)
(* one remote call, then the file-system calls, each step made once; the    *)
(* prompt holds the diff that diff extraction returned and the text written *)
(* is the review the remote call returned.                                  *)
Phase(c) ==
    CASE c.call = "os.getenv" -> 0
      [] c.call = "git" -> 1
      [] c.call = "ChatCompletion.create" -> 2
      [] OTHER -> 3

Rank(at) ==
    CASE at = "Idle" -> 0
      [] at = "CredentialChecked" -> 1
      [] at = "DiffObtained" -> 2
      [] at = "ReviewObtained" -> 3
      [] OTHER -> 4

C9_Order ==
    /\ \A i, j \in DOMAIN log : i < j => Phase(log[i]) <= Phase(log[j])
    /\ \A i \in DOMAIN log : Phase(log[i]) < Rank(pc)
    /\ Len(CallsOf("os.getenv")) = (IF pc = "Idle" THEN 0 ELSE 1)
    /\ \A args \in {RevParseArgs, Diff2Args, DiffEmptyArgs} :
          Len(SelectSeq(GitCalls, LAMBDA c : c.arg = args)) <= 1
    /\ Len(RemoteCalls) <= 1
    /\ \A name \in {"os.makedirs", "open", "file.write"} : Len(CallsOf(name)) <= 1
    /\ pc \in {"DiffObtained", "ReviewObtained", "ReportSaved"} =>
          /\ GitCalls # <<>>
          /\ GitCalls[Len(GitCalls)].ok
          /\ diff = Str(GitCalls[Len(GitCalls)].out)
    /\ pc \in {"ReviewObtained", "ReportSaved"} =>
          /\ Len(RemoteCalls) = 1
          /\ RemoteCalls[1].out = <<review>>
    /\ \A i \in DOMAIN RemoteCalls : RemoteCalls[i].arg = BuildPrompt(diff.val)
    /\ \A i \in DOMAIN log : log[i].call = "file.write" => log[i].arg = review.val

C9_Step ==
    \/ pc \notin Terminal /\ pc' = "Failed"
    \/ <<pc, pc'>> \in {<<"Idle", "CredentialChecked">>,
                        <<"CredentialChecked", "DiffObtained">>,
                        <<"DiffObtained", "ReviewObtained">>,
                        <<"ReviewObtained", "ReportSaved">>}
    \/ pc \in Terminal /\ pc' = "Idle" /\ run' = run + 1

C9_StateMachine == [](C9_Order) /\ [][C9_Step]_vars

C9_Witness ==
    /\ pc = "ReportSaved"
    /\ run = 1
    /\ Len(log) = 7
    /\ diff = Str(<<"x">>)
    /\ review = Str(<<"x", "\n">>)

(* C10, as stated: the diff sent to the remote service is never empty.      *)
C10_DiffNonEmpty ==
    \A i \in DOMAIN log :
        log[i].call = "ChatCompletion.create" =>
            (diff.val # <<>> /\ log[i].arg # PromptHead \o PromptTail)

(* C10, amended: the diff sent to the remote service is the output of the   *)
(* diff command that succeeded, unchecked; it is the empty text when that   *)
(* command printed nothing.                                                 *)
C10_DiffIsGitOutput ==
    \A i \in DOMAIN log :
        log[i].call = "ChatCompletion.create" =>
            /\ i > 1
            /\ log[i - 1].call = "git"
            /\ log[i - 1].arg \in {Diff2Args, DiffEmptyArgs}
            /\ log[i - 1].ok
            /\ log[i].arg = PromptHead \o log[i - 1].out \o PromptTail

C10_Witness ==
    /\ RemoteCalls # <<>>
    /\ RemoteCalls[1].arg = PromptHead \o PromptTail
    /\ GitSucceeded(Diff2Args)
    /\ pc = "ReportSaved"

====
